---- MODULE Spec2Model ----
(***************************************************************************)
(* A model of cybersec/bruteforce.py: the dictionary-combination search of *)
(* attack_hash (wordlist loop, work units, worker pool, early return) and  *)
(* the per-target loop of the entry point.                                 *)
(*                                                                         *)
(* Strings are sequences of small naturals: 0 is a whitespace character,   *)
(* 1, 2, ... are word characters. A hexadecimal digest is the record       *)
(* [len, val, hex]: its length in hex characters, the number it encodes    *)
(* and whether every character is a hex digit.                             *)
(***************************************************************************)
EXTENDS Integers, Sequences, FiniteSets, TLC

\* ------------------------------------------------------------------ bounds
\* Lines per wordlist file.
MaxLines == 2
\* Results of one pool task chunk (imap_unordered's chunksize, 10000 in the
\* code, scaled to the model's wordlists so that a task list spans several
\* chunks that complete in any order).
ChunkSize == 2
\* Target hashes per run of the entry point.
MaxTargets == 2

\* ----------------------------------------------------------- configuration
HASH_ALGORITHMS ==
    << "md5", "sha1", "sha256", "sha512", "sha3_256", "sha3_512",
       "sha224", "sha384", "blake2b", "blake2s", "sha3_224",
       "sha3_384", "shake_128", "shake_256" >>

KnownLengths == {32, 40, 56, 64, 96, 128}

HASH_LENGTH_MAP ==
    [n \in KnownLengths |->
        CASE n = 32  -> << "md5" >>
          [] n = 40  -> << "sha1" >>
          [] n = 56  -> << "sha224" >>
          [] n = 64  -> << "sha256", "sha3_256", "blake2s" >>
          [] n = 96  -> << "sha384", "sha3_384" >>
          [] n = 128 -> << "sha512", "sha3_512", "blake2b" >>]

GENERIC_WORDLISTS == << "wordlist/10k-most-common.txt", "wordlist/rockyou.txt" >>

\* Python's None for an optional string option (falsy, like the empty string).
NoneStr == ""
\* Python's None for the optional --hash-length (falsy, like 0).
NoneInt == 0

Range(s) == {s[i] : i \in 1..Len(s)}

\* ------------------------------------------------------------ digest engine
\* The position of an algorithm in HASH_ALGORITHMS.
AlgoIndex(algorithm) ==
    CHOOSE i \in 1..Len(HASH_ALGORITHMS) : HASH_ALGORITHMS[i] = algorithm

\* The number of hex characters hash_string returns: hashlib's digest sizes,
\* and hexdigest(16), 32 hex characters, for the shake_ algorithms.
DigestLen(algorithm) ==
    CASE algorithm \in {"shake_128", "shake_256"} -> 32
      [] algorithm = "md5" -> 32
      [] algorithm = "sha1" -> 40
      [] algorithm \in {"sha224", "sha3_224"} -> 56
      [] algorithm \in {"sha256", "sha3_256", "blake2s"} -> 64
      [] algorithm \in {"sha384", "sha3_384"} -> 96
      [] algorithm \in {"sha512", "sha3_512", "blake2b"} -> 128

\* A toy compression of the text: a position-weighted checksum modulo 3.
\* Distinct texts may collide ("aa" and "bb"), as two inputs of a real digest
\* may, and the order of the characters matters ("ab" and "ba" differ).
Fold(text) ==
    LET S[i \in 0..Len(text)] ==
            IF i = 0 THEN 0 ELSE (S[i - 1] + i * text[i]) % 3
    IN  S[Len(text)]

\* hash_string(text, algorithm): deterministic, always lower-case hex of the
\* algorithm's length; one text never has the same digest under two
\* algorithms (AlgoIndex separates them).
hash_string(text, algorithm) ==
    [len |-> DigestLen(algorithm),
     val |-> Fold(text) + AlgoIndex(algorithm),
     hex |-> TRUE]

\* ------------------------------------------------------- algorithm resolver
get_algorithms(algo, hash_length) ==
    IF algo # NoneStr THEN << algo >>
    ELSE IF hash_length # NoneInt /\ hash_length \in DOMAIN HASH_LENGTH_MAP
         THEN HASH_LENGTH_MAP[hash_length]
         ELSE HASH_ALGORITHMS

get_wordlists(custom) ==
    IF custom # NoneStr THEN << custom >> \o GENERIC_WORDLISTS
    ELSE GENERIC_WORDLISTS

\* ------------------------------------------------------------ wordlist load
Whitespace == {0}

RECURSIVE lstrip(_)
lstrip(s) == IF s # << >> /\ Head(s) \in Whitespace THEN lstrip(Tail(s)) ELSE s

RECURSIVE rstrip(_)
rstrip(s) ==
    IF s # << >> /\ s[Len(s)] \in Whitespace
    THEN rstrip(SubSeq(s, 1, Len(s) - 1))
    ELSE s

\* str.strip()
strip(s) == rstrip(lstrip(s))

\* words = [line.strip() for line in f if line.strip()]
LoadWords(lines) ==
    SelectSeq([i \in 1..Len(lines) |-> strip(lines[i])], LAMBDA w : w # << >>)

\* ---------------------------------------------------------------- work unit
\* The result of a work unit that matched nothing (Python's None).
NoMatch == << >>

\* The concatenations check_combination builds for a unit, in order.
Combos(password, salt, mode) ==
    (IF mode \in {"ps", "both"} THEN << password \o salt >> ELSE << >>)
    \o (IF mode \in {"sp", "both"} THEN << salt \o password >> ELSE << >>)

\* The index in combos of the first one whose digest is the target, 0 if none.
FirstMatch(combos, algorithm, target) ==
    LET hits == {i \in 1..Len(combos) : hash_string(combos[i], algorithm) = target}
    IN  IF hits = {} THEN 0 ELSE CHOOSE i \in hits : \A j \in hits : i <= j

\* check_combination without its second test, "if mode in ('sp', 'both')".
check_combination_no_sp(task) ==
    LET combos == IF task[5] \in {"ps", "both"}
                  THEN << task[1] \o task[2] >> ELSE << >>
        m      == FirstMatch(combos, task[3], task[4])
    IN  IF m = 0 THEN NoMatch ELSE << combos[m], task[3] >>

\* check_combination(task), task = (password, salt, algorithm, target_hash, mode)
check_combination(task) ==
    LET combos == Combos(task[1], task[2], task[5])
        m      == FirstMatch(combos, task[3], task[4])
    IN  IF m = 0 THEN NoMatch ELSE << combos[m], task[3] >>

\* The (text, algorithm) pairs check_combination hashes for a task: every
\* combo up to the first match.
HashedBy(task) ==
    LET combos == Combos(task[1], task[2], task[5])
        m      == FirstMatch(combos, task[3], task[4])
        last   == IF m = 0 THEN Len(combos) ELSE m
    IN  {<< combos[i], task[3] >> : i \in 1..last}

\* The task list without the self-pairs (pwd is salt).
BuildTasks_no_self_pairs(ws, algs, target, m) ==
    LET n == Len(ws)
        all == [k \in 1..(Len(algs) * n * n) |->
                  << (((k - 1) \div n) % n) + 1, ((k - 1) % n) + 1,
                     ((k - 1) \div (n * n)) + 1 >>]
        kept == SelectSeq(all, LAMBDA t : t[1] # t[2])
    IN  [k \in 1..Len(kept) |->
            << ws[kept[k][1]], ws[kept[k][2]], algs[kept[k][3]], target, m >>]

\* tasks = [(pwd, salt, algo, target_hash, mode)
\*          for algo in algos for pwd in words for salt in words]
BuildTasks(ws, algs, target, m) ==
    LET n == Len(ws)
    IN  [k \in 1..(Len(algs) * n * n) |->
            << ws[(((k - 1) \div n) % n) + 1],
               ws[((k - 1) % n) + 1],
               algs[((k - 1) \div (n * n)) + 1],
               target, m >>]

\* -------------------------------------------------------------------- state
VARIABLES
    files,        \* the file system: path -> [exists, lines]
    target_hash,  \* attack_hash's parameters
    wordlists,
    algos,
    mode,
    pc,           \* attack_hash: "loop" (for wordlist in wordlists), "pool", "done"
    wi,           \* index in wordlists of the current wordlist
    words,        \* the loaded words of the current wordlist
    tasks,        \* its work units
    ready,        \* chunks a worker has evaluated, their results not yet consumed
    consumed,     \* indices of the tasks whose result the coordinator has consumed
    hashed,       \* every (text, algorithm) a worker has hashed so far
    visited,      \* per wordlist reached: skipped or opened, and its progress bar
    reports,      \* the found / not-found records attack_hash has emitted
    m_pc,         \* entry point: "start", "targets", "exit"
    args,         \* the parsed command line
    main_algos,   \* the entry point's variable algos (line 247)
    targets,      \* the target hashes of the run
    ti,           \* index in targets of the next target
    calls,        \* the calls of attack_hash the entry point has made
    skipped       \* the targets the entry point has skipped, with the warning

attackVars == << target_hash, algos, mode, pc, wi, words, tasks, ready,
                 consumed, hashed, visited, reports >>
mainVars == << m_pc, args, main_algos, targets, ti, calls, skipped >>
vars == << files, wordlists, attackVars, mainVars >>

\* ------------------------------------------------------------------- inputs
CustomPath == "custom.txt"
AllPaths == {CustomPath} \cup Range(GENERIC_WORDLISTS)

SeqUpTo(S, n) == UNION {[1..k -> S] : k \in 0..n}

\* The lines a custom wordlist file may hold: an empty line, "a" and " b ".
LineSet == {<< >>, << 1 >>, << 0, 2, 0 >>}

Missing == [exists |-> FALSE, lines |-> << >>]
File(lines) == [exists |-> TRUE, lines |-> lines]

FileSet == {Missing} \cup {File(l) : l \in SeqUpTo(LineSet, MaxLines)}
GenericFileSet(i) ==
    {Missing, File(IF i = 1 THEN << << 1 >>, << 0, 2, 0 >> >>
                            ELSE << << 2 >>, << 1, 1 >>, << >> >>)}

\* The target digests, each with the algorithm it was made with: "a", "ab"
\* and "bb" under md5 (the one algorithm of its length) and "ab" under sha384
\* (one of two).
AttackTargets ==
    {<< t, "md5" >> : t \in {<< 1 >>, << 1, 2 >>, << 2, 2 >>}}
    \cup {<< << 1, 2 >>, "sha384" >>}
Modes == {"ps", "sp", "both"}

\* ------------------------------------------------------------- attack_hash
NumChunks == (Len(tasks) + ChunkSize - 1) \div ChunkSize
ChunkUnits(c) == {k \in 1..Len(tasks) : ((k - 1) \div ChunkSize) + 1 = c}
AllUnits == 1..Len(tasks)

FoundRecord(result) ==
    [found |-> TRUE, hash |-> target_hash, algorithm |-> result[2],
     password |-> result[1], generated |-> hash_string(result[1], result[2])]
NotFoundRecord ==
    [found |-> FALSE, hash |-> target_hash, reason |-> "No match found"]

\* A missing wordlist that ends the loop (break) instead of being skipped.
SkipMissing_break ==
    /\ pc = "loop"
    /\ wi <= Len(wordlists)
    /\ ~files[wordlists[wi]].exists
    /\ visited' = Append(visited,
            [wordlist |-> wordlists[wi], opened |-> FALSE, total |-> 0, n |-> 0])
    /\ wi' = Len(wordlists) + 1
    /\ UNCHANGED << files, wordlists, target_hash, algos, mode, pc, words,
                    tasks, ready, consumed, hashed, reports, mainVars >>

\* if not os.path.exists(wordlist): info(...); continue
SkipMissing ==
    /\ pc = "loop"
    /\ wi <= Len(wordlists)
    /\ ~files[wordlists[wi]].exists
    /\ visited' = Append(visited,
            [wordlist |-> wordlists[wi], opened |-> FALSE, total |-> 0, n |-> 0])
    /\ wi' = wi + 1
    /\ UNCHANGED << files, wordlists, target_hash, algos, mode, pc, words,
                    tasks, ready, consumed, hashed, reports, mainVars >>

\* open(wordlist), the words, the tasks, Pool(threads), imap_unordered, tqdm
OpenWordlist ==
    /\ pc = "loop"
    /\ wi <= Len(wordlists)
    /\ files[wordlists[wi]].exists
    /\ LET ws == LoadWords(files[wordlists[wi]].lines)
           ts == BuildTasks(ws, algos, target_hash, mode)
       IN  /\ words' = ws
           /\ tasks' = ts
           /\ visited' = Append(visited,
                  [wordlist |-> wordlists[wi], opened |-> TRUE,
                   total |-> Len(ts), n |-> 0])
    /\ ready' = {}
    /\ consumed' = {}
    /\ pc' = "pool"
    /\ UNCHANGED << files, wordlists, target_hash, algos, mode, wi, hashed,
                    reports, mainVars >>

\* A pool worker evaluates one chunk of tasks with check_combination.
WorkerChunk(c) ==
    /\ pc = "pool"
    /\ c \notin ready
    /\ ChunkUnits(c) \cap consumed = {}
    /\ hashed' = hashed \cup UNION {HashedBy(tasks[k]) : k \in ChunkUnits(c)}
    /\ ready' = ready \cup {c}
    /\ UNCHANGED << files, wordlists, target_hash, algos, mode, pc, wi, words,
                    tasks, consumed, visited, reports, mainVars >>

\* The coordinator without "pool.terminate(); return True": it reports the
\* match and goes on consuming.
ConsumeChunk_no_return(c) ==
    /\ pc = "pool"
    /\ c \in ready
    /\ LET hits  == {k \in ChunkUnits(c) : check_combination(tasks[k]) # NoMatch}
           first == CHOOSE k \in hits : \A j \in hits : k <= j
       IN  /\ consumed' = consumed \cup ChunkUnits(c)
           /\ visited' = [visited EXCEPT
                  ![Len(visited)].n = @ + Cardinality(ChunkUnits(c))]
           /\ reports' = IF hits = {} THEN reports
                         ELSE Append(reports,
                                  FoundRecord(check_combination(tasks[first])))
    /\ pc' = "pool"
    /\ ready' = ready \ {c}
    /\ UNCHANGED << files, wordlists, target_hash, algos, mode, wi, words,
                    tasks, hashed, mainVars >>

\* The coordinator iterates the results of one finished chunk, in order:
\* on the first non-empty result it reports, terminates the pool and returns
\* True; otherwise it goes on to the next finished chunk.
ConsumeChunk(c) ==
    /\ pc = "pool"
    /\ c \in ready
    /\ LET hits  == {k \in ChunkUnits(c) : check_combination(tasks[k]) # NoMatch}
           first == CHOOSE k \in hits : \A j \in hits : k <= j
           upto  == IF hits = {} THEN ChunkUnits(c)
                    ELSE {k \in ChunkUnits(c) : k <= first}
       IN  /\ consumed' = consumed \cup upto
           /\ visited' = [visited EXCEPT ![Len(visited)].n = @ + Cardinality(upto)]
           /\ IF hits = {}
              THEN /\ pc' = "pool"
                   /\ reports' = reports
              ELSE /\ pc' = "done"
                   /\ reports' = Append(reports,
                          FoundRecord(check_combination(tasks[first])))
    /\ ready' = ready \ {c}
    /\ UNCHANGED << files, wordlists, target_hash, algos, mode, wi, words,
                    tasks, hashed, mainVars >>

\* A coordinator that leaves the pool as soon as no result is waiting,
\* whether or not every task has been evaluated.
PoolExhausted_when_idle ==
    /\ pc = "pool"
    /\ ready = {}
    /\ pc' = "loop"
    /\ wi' = wi + 1
    /\ UNCHANGED << files, wordlists, target_hash, algos, mode, words, tasks,
                    ready, consumed, hashed, visited, reports, mainVars >>

\* The result iterator is exhausted: the with-block ends, next wordlist.
PoolExhausted ==
    /\ pc = "pool"
    /\ consumed = AllUnits
    /\ pc' = "loop"
    /\ wi' = wi + 1
    /\ UNCHANGED << files, wordlists, target_hash, algos, mode, words, tasks,
                    ready, consumed, hashed, visited, reports, mainVars >>

\* After the loop: info("... not found."), the found=False record, return False
ReportNotFound ==
    /\ pc = "loop"
    /\ wi > Len(wordlists)
    /\ reports' = Append(reports, NotFoundRecord)
    /\ pc' = "done"
    /\ UNCHANGED << files, wordlists, target_hash, algos, mode, wi, words,
                    tasks, ready, consumed, hashed, visited, mainVars >>

MainIdle ==
    /\ m_pc = "exit"
    /\ args = [algo |-> NoneStr, hash_length |-> NoneInt,
               custom_wordlist |-> NoneStr, mode |-> "both"]
    /\ main_algos = << >>
    /\ targets = << >>
    /\ ti = 1
    /\ calls = << >>
    /\ skipped = << >>

\* attack_hash called for one target, as the entry point calls it: with the
\* wordlists of get_wordlists and the algorithms of get_algorithms, the
\* algorithm of the target forced or inferred from the length of the target.
Init ==
    /\ \E custom \in {NoneStr, CustomPath} :
         /\ wordlists = get_wordlists(custom)
         /\ \E cf \in IF custom = NoneStr THEN {Missing} ELSE FileSet,
               g1 \in GenericFileSet(1), g2 \in GenericFileSet(2) :
               files = [p \in AllPaths |->
                          IF p = CustomPath THEN cf
                          ELSE IF p = GENERIC_WORDLISTS[1] THEN g1 ELSE g2]
    /\ \E ta \in AttackTargets :
         /\ target_hash = hash_string(ta[1], ta[2])
         /\ \E algo \in {NoneStr, ta[2]} :
               algos = get_algorithms(algo, target_hash.len)
    /\ mode \in Modes
    /\ pc = "loop"
    /\ wi = 1
    /\ words = << >>
    /\ tasks = << >>
    /\ ready = {}
    /\ consumed = {}
    /\ hashed = {}
    /\ visited = << >>
    /\ reports = << >>
    /\ MainIdle

Next ==
    \/ SkipMissing
    \/ OpenWordlist
    \/ \E c \in 1..NumChunks : WorkerChunk(c)
    \/ \E c \in 1..NumChunks : ConsumeChunk(c)
    \/ PoolExhausted
    \/ ReportNotFound

Spec == Init /\ [][Next]_vars

\* -------------------------------------------------------------- entry point
\* Whether attack_hash, called with these arguments, returns True: some work
\* unit of some existing wordlist has a non-empty result.
AttackFinds(target, wls, algs, m) ==
    \E i \in 1..Len(wls) :
        /\ files[wls[i]].exists
        /\ LET ts == BuildTasks(LoadWords(files[wls[i]].lines), algs, target, m)
           IN  \E k \in 1..Len(ts) : check_combination(ts[k]) # NoMatch

\* The per-target algorithms taken from the run-wide variable algos.
TargetAlgorithms_run_wide(t) == main_algos

\* hash_algos = get_algorithms(args.algo, len(target_hash))
TargetAlgorithms(t) == get_algorithms(args.algo, t.len)

\* all(c in "0123456789abcdefABCDEF" for c in target_hash)
IsHex(t) == t.hex

\* algos = get_algorithms(args.algo, args.hash_length)
\* wordlists = get_wordlists(args.custom_wordlist)
MainResolve ==
    /\ m_pc = "start"
    /\ main_algos' = get_algorithms(args.algo, args.hash_length)
    /\ wordlists' = get_wordlists(args.custom_wordlist)
    /\ m_pc' = "targets"
    /\ UNCHANGED << files, attackVars, args, targets, ti, calls, skipped >>

\* One iteration of "for target_hash in targets" that ends in a continue.
MainSkipTarget ==
    /\ m_pc = "targets"
    /\ ti <= Len(targets)
    /\ LET t == targets[ti]
       IN  /\ TargetAlgorithms(t) = << >> \/ ~IsHex(t)
           /\ skipped' = Append(skipped,
                  [target |-> t,
                   warning |-> IF TargetAlgorithms(t) = << >>
                               THEN "unsupported length"
                               ELSE "not a valid hex string"])
    /\ ti' = ti + 1
    /\ UNCHANGED << files, wordlists, attackVars, m_pc, args, main_algos,
                    targets, calls >>

\* One iteration that reaches attack_hash(target_hash, wordlists, hash_algos,
\* args.mode, ...), taken as one step.
MainAttackTarget ==
    /\ m_pc = "targets"
    /\ ti <= Len(targets)
    /\ LET t == targets[ti]
       IN  /\ TargetAlgorithms(t) # << >>
           /\ IsHex(t)
           /\ calls' = Append(calls,
                  [target_hash |-> t,
                   wordlists |-> wordlists,
                   algos |-> TargetAlgorithms(t),
                   mode |-> args.mode,
                   found |-> AttackFinds(t, wordlists, TargetAlgorithms(t),
                                         args.mode)])
    /\ ti' = ti + 1
    /\ UNCHANGED << files, wordlists, attackVars, m_pc, args, main_algos,
                    targets, skipped >>

\* The loop over the targets ends.
MainExit ==
    /\ m_pc = "targets"
    /\ ti > Len(targets)
    /\ m_pc' = "exit"
    /\ UNCHANGED << files, wordlists, attackVars, args, main_algos, targets,
                    ti, calls, skipped >>

\* The target strings of a run: digests of "ab" of length 32, 56 and 64, a
\* hex string of length 3, and two strings with a non-hex character.
MainTargets ==
    {hash_string(<< 1, 2 >>, a) : a \in {"md5", "sha3_224", "blake2s"}}
    \cup {[len |-> 3, val |-> 1, hex |-> TRUE],
          [len |-> 32, val |-> 1, hex |-> FALSE],
          [len |-> 3, val |-> 1, hex |-> FALSE]}
MainForcedAlgos == {NoneStr, "md5", "shake_128"}
MainHashLengths == {NoneInt, 7} \cup KnownLengths

AttackIdle ==
    /\ target_hash = [len |-> 0, val |-> 0, hex |-> TRUE]
    /\ algos = << >>
    /\ mode = "both"
    /\ pc = "done"
    /\ wi = 1
    /\ words = << >>
    /\ tasks = << >>
    /\ ready = {}
    /\ consumed = {}
    /\ hashed = {}
    /\ visited = << >>
    /\ reports = << >>

\* The entry point after parse_args and after the targets are read.
InitMain ==
    /\ \E algo \in MainForcedAlgos, hl \in MainHashLengths,
          custom \in {NoneStr, CustomPath}, m \in Modes :
         args = [algo |-> algo, hash_length |-> hl,
                 custom_wordlist |-> custom, mode |-> m]
    /\ \E g1 \in GenericFileSet(1) :
         files = [p \in AllPaths |->
                    IF p = CustomPath THEN File(<< << 1 >>, << >> >>)
                    ELSE IF p = GENERIC_WORDLISTS[1] THEN g1 ELSE Missing]
    /\ targets \in SeqUpTo(MainTargets, MaxTargets)
    /\ wordlists = << >>
    /\ main_algos = << >>
    /\ m_pc = "start"
    /\ ti = 1
    /\ calls = << >>
    /\ skipped = << >>
    /\ AttackIdle

NextMain ==
    \/ MainResolve
    \/ MainSkipTarget
    \/ MainAttackTarget
    \/ MainExit

SpecMain == InitMain /\ [][NextMain]_vars

\* ------------------------------------------------------------------ helpers
\* The words attack_hash loads from the wordlist at index i.
WordsAt(i) == LoadWords(files[wordlists[i]].lines)

\* Some concatenation of two words of wordlist i has the target digest under
\* a candidate algorithm.
Producible(i) ==
    /\ files[wordlists[i]].exists
    /\ \E a \in Range(algos), x \in Range(WordsAt(i)), y \in Range(WordsAt(i)) :
          hash_string(x \o y, a) = target_hash

FoundReported == reports # << >> /\ reports[1].found
NotFoundReported == reports # << >> /\ ~reports[1].found

\* The coordinator has consumed a non-empty result.
Matched == \E k \in consumed : check_combination(tasks[k]) # NoMatch

InPriorityOrder ==
    /\ Len(visited) <= Len(wordlists)
    /\ \A i \in 1..Len(visited) : visited[i].wordlist = wordlists[i]

\* ----------------------------------------------------------------------- C1
\* C1: the wordlists are visited in the given order, and once the coordinator
\* has consumed a non-empty result the attack is over with exactly one record,
\* a found record of a consumed match; from then on no wordlist is opened or
\* scanned, nothing is hashed and no not-found record is emitted.
C1_StopsAtFirstMatch ==
    [][ /\ InPriorityOrder'
        /\ Matched' =>
             /\ pc' = "done"
             /\ Len(reports') = 1
             /\ \E k \in consumed' :
                  /\ check_combination(tasks'[k]) # NoMatch
                  /\ reports'[1] = [found |-> TRUE, hash |-> target_hash,
                        algorithm |-> check_combination(tasks'[k])[2],
                        password |-> check_combination(tasks'[k])[1],
                        generated |-> target_hash]
        /\ FoundReported =>
             UNCHANGED << visited, hashed, consumed, reports, wi, pc >> ]_vars

\* A match is found while a later wordlist, which also holds a match, is
\* never opened.
C1_Witness ==
    /\ pc = "done"
    /\ FoundReported
    /\ Len(visited) = wi
    /\ \E j \in (wi + 1)..Len(wordlists) : Producible(j)

\* ----------------------------------------------------------------------- C2
\* C2: the attack ends with one record, which is the not-found record exactly
\* when no concatenation of two words of an existing wordlist has the target
\* digest under a candidate algorithm; and a not-found record is emitted only
\* when every wordlist was reached and every unit of every existing one was
\* consumed and hashed.
C2_NotFoundIffNothingMatches ==
    /\ pc = "done" =>
         /\ Len(reports) = 1
         /\ ~reports[1].found <=> ~(\E i \in 1..Len(wordlists) : Producible(i))
    /\ NotFoundReported =>
         /\ Len(visited) = Len(wordlists)
         /\ \A i \in 1..Len(wordlists) :
              /\ visited[i].opened = files[wordlists[i]].exists
              /\ visited[i].n = visited[i].total
              /\ visited[i].opened =>
                   /\ visited[i].total =
                        Len(algos) * Len(WordsAt(i)) * Len(WordsAt(i))
                   /\ \A a \in Range(algos), x \in Range(WordsAt(i)),
                         y \in Range(WordsAt(i)) : << x \o y, a >> \in hashed

\* Not found after two existing wordlists, one of them of several chunks.
C2_Witness ==
    /\ NotFoundReported
    /\ Cardinality({i \in 1..Len(visited) : visited[i].opened}) >= 2
    /\ \E i \in 1..Len(visited) : visited[i].total > ChunkSize

C6_ModeRestrictsAttack ==
    (\A i \in 1..Len(wordlists) :
        files[wordlists[i]].exists =>
            Range(WordsAt(i)) = {<< 1 >>, << 2 >>})
    => /\ mode = "ps" => \A a \in Range(algos) : << << 2, 1 >>, a >> \notin hashed
       /\ mode = "sp" => \A a \in Range(algos) : << << 1, 2 >>, a >> \notin hashed

\* ----------------------------------------------------------------------- C7
\* The number of (algorithm, password, salt) index triples whose unit is u.
TriplesOf(u) ==
    Cardinality({t \in (1..Len(algos)) \X (1..Len(words)) \X (1..Len(words)) :
        << words[t[2]], words[t[3]], algos[t[1]], target_hash, mode >> = u})

\* C7: the task list of a loaded wordlist holds exactly one unit per triple
\* of an algorithm, a password position and a salt position, self-pairs
\* included and whatever the mode; and an attack with mode "both" that ends
\* not-found has hashed password+salt and salt+password for every pair of
\* words of every existing wordlist under every algorithm.
C7_OneUnitPerTriple ==
    /\ Len(tasks) = Len(algos) * Len(words) * Len(words)
    /\ \A a \in 1..Len(algos), i \in 1..Len(words), j \in 1..Len(words) :
         LET u == << words[i], words[j], algos[a], target_hash, mode >>
         IN  Cardinality({k \in 1..Len(tasks) : tasks[k] = u}) = TriplesOf(u)
    /\ (NotFoundReported /\ mode = "both") =>
         \A w \in 1..Len(wordlists) :
            files[wordlists[w]].exists =>
               \A a \in Range(algos), x \in Range(WordsAt(w)),
                  y \in Range(WordsAt(w)) :
                  /\ << x \o y, a >> \in hashed
                  /\ << y \o x, a >> \in hashed

\* A not-found attack with mode "both" whose last wordlist has two words,
\* under two algorithms.
C7_Witness ==
    /\ NotFoundReported
    /\ mode = "both"
    /\ Len(words) = 2
    /\ words[1] # words[2]
    /\ Len(algos) = 2
    /\ Len(tasks) = 8

\* ----------------------------------------------------------------------- C8
\* The wordlist sequence with the missing paths removed.
Existing == SelectSeq(wordlists, LAMBDA p : files[p].exists)

\* Some work unit of the wordlist at path p has a non-empty result.
FindsIn(p) ==
    LET ts == BuildTasks(LoadWords(files[p].lines), algos, target_hash, mode)
    IN  \E k \in 1..Len(ts) : check_combination(ts[k]) # NoMatch

\* The attack on a sequence of paths that are all opened: the path of the
\* first wordlist that holds a match, NoneStr when none does.
RECURSIVE StopsAt(_)
StopsAt(paths) ==
    IF paths = << >> THEN NoneStr
    ELSE IF FindsIn(Head(paths)) THEN Head(paths)
    ELSE StopsAt(Tail(paths))

\* C8: a missing wordlist is skipped, nothing is opened or hashed for it,
\* and the attack ends found or not-found, at the same wordlist, as the
\* attack on the sequence without the missing paths does.
C8_MissingWordlistsSkipped ==
    /\ \A i \in 1..Len(visited) :
         ~files[wordlists[i]].exists =>
            visited[i] = [wordlist |-> wordlists[i], opened |-> FALSE,
                          total |-> 0, n |-> 0]
    /\ pc = "done" =>
         /\ Len(reports) = 1
         /\ reports[1].found = (StopsAt(Existing) # NoneStr)
         /\ reports[1].found => wordlists[wi] = StopsAt(Existing)

\* A match found in a wordlist that comes after a missing one.
C8_Witness ==
    /\ pc = "done"
    /\ FoundReported
    /\ \E i \in 1..Len(visited) : i < wi /\ ~visited[i].opened

\* ----------------------------------------------------------------------- C9
\* The index of the first wordlist that holds a match, 0 when none does.
FirstMatching ==
    LET hits == {i \in 1..Len(wordlists) :
                    files[wordlists[i]].exists /\ FindsIn(wordlists[i])}
    IN  IF hits = {} THEN 0 ELSE CHOOSE i \in hits : \A j \in hits : i <= j

\* The texts, among the concatenations of two words of an existing wordlist,
\* that have the target digest under a candidate algorithm.
MatchingTexts ==
    {t \in UNION {{x \o y : x \in Range(WordsAt(i)), y \in Range(WordsAt(i))} :
                    i \in {j \in 1..Len(wordlists) : files[wordlists[j]].exists}} :
        \E a \in Range(algos) : hash_string(t, a) = target_hash}

\* The result of the first matching unit, in task order, of wordlist i.
FirstResult(i) ==
    LET ts == BuildTasks(WordsAt(i), algos, target_hash, mode)
        hits == {k \in 1..Len(ts) : check_combination(ts[k]) # NoMatch}
    IN  check_combination(ts[CHOOSE k \in hits : \A j \in hits : k <= j])

\* C9: in whatever order the pool completes the chunks, the attack ends with
\* the verdict and at the wordlist that the inputs alone determine, and, when
\* at most one text has the target digest, with the same secret and algorithm.
C9_ScheduleIndependent ==
    pc = "done" =>
        /\ Len(reports) = 1
        /\ reports[1].found = (FirstMatching # 0)
        /\ wi = (IF FirstMatching # 0 THEN FirstMatching ELSE Len(wordlists) + 1)
        /\ (reports[1].found /\ Cardinality(MatchingTexts) <= 1) =>
              /\ reports[1].password = FirstResult(FirstMatching)[1]
              /\ reports[1].algorithm = FirstResult(FirstMatching)[2]

\* A match found in a chunk consumed ahead of an earlier chunk, whose units
\* were never consumed, where one text only has the target digest and two
\* units of different chunks produce it.
C9_Witness ==
    /\ pc = "done"
    /\ FoundReported
    /\ Cardinality(MatchingTexts) = 1
    /\ \E k \in consumed : \E j \in 1..(k - 1) : j \notin consumed
    /\ \E j \in 1..Len(tasks), k \in 1..Len(tasks) :
          /\ (j - 1) \div ChunkSize # (k - 1) \div ChunkSize
          /\ check_combination(tasks[j]) # NoMatch
          /\ check_combination(tasks[k]) # NoMatch

\* ----------------------------------------------------------------------- C3
\* C3: with no forced algorithm and a configured hash length that is a known
\* length, get_algorithms returns exactly the supported algorithms whose
\* digest, as hash_string produces it, has that length.
C3_InferredSetIsEveryAlgorithmOfThatLength ==
    (m_pc # "start" /\ args.algo = NoneStr /\ args.hash_length \in KnownLengths)
    => Range(main_algos) =
         {a \in Range(HASH_ALGORITHMS) : DigestLen(a) = args.hash_length}

\* ----------------------------------------------------------------------- C4
\* C4: attack_hash is never called for a target with a non-hex character or
\* with a length that maps to no algorithm, and every target of the run is
\* either skipped or attacked.
C4_InvalidTargetsSkipped ==
    /\ \A i \in 1..Len(calls) :
         /\ calls[i].target_hash.hex
         /\ calls[i].target_hash.len \in DOMAIN HASH_LENGTH_MAP
    /\ Len(calls) + Len(skipped) = ti - 1
    /\ m_pc = "exit" => ti = Len(targets) + 1

====
